---- MODULE Spec2Model ----
(***************************************************************************)
(* Checkpoint management of the Tacotron2 training pipeline                *)
(* (training/checkpoint.py): saving and loading training snapshots, the    *)
(* dual-frequency retention of checkpoint files, warm start from a prior   *)
(* checkpoint and the transfer of embedding rows between vocabularies.     *)
(*                                                                         *)
(* The functions are synchronous and single threaded, so every call is one *)
(* atomic action.  The arguments of a call are drawn from small sets and   *)
(* recorded in `call`; `before` holds the mutable object (the output       *)
(* directory, or the model) as it was when the call started.               *)
(***************************************************************************)
EXTENDS Integers, Sequences, FiniteSets, TLC

VARIABLES
    directory,  \* output_directory: file name -> snapshot held by that file
    model,      \* the model object handed to warm_start_model / the embedding layer owner
    call,       \* the last call: its name and its arguments
    before,     \* `directory` (codec calls) or `model` (embedding calls) before the call
    raised,     \* the exception that left the call, or NoException
    returned,   \* the value the call returned, or None
    trace       \* what the call did on the way: saves so far, transfer invocation, samples

vars == <<directory, model, call, before, raised, returned, trace>>

(***************************************************************************)
(* Bounds of the model.                                                    *)
(***************************************************************************)
MaxIter == 2        \* iterations passed to a direct call are 0..MaxIter
MaxFreq == 2        \* checkpoint_frequency is 1..MaxFreq
MaxBackup == 3      \* checkpoint_backup_frequency is 1..MaxBackup
MaxBatches == 2     \* len(train_loader) is 0..MaxBatches
MaxSaves == 5       \* saves of one training run
MaxOld == 2         \* the old vocabulary and the old embedding matrix have up to MaxOld rows
MaxNew == 2         \* the new vocabulary and the embedding layer have up to MaxNew rows

None == "None"
NoException == "NoException"

\* An optional argument that is compared with a list: None is the empty tuple
\* and the list x is the one-element tuple <<x>>, so that None differs from
\* every list, the empty list included.
NoneOpt == <<>>
Some(x) == <<x>>

(***************************************************************************)
(* Python helpers.                                                         *)
(***************************************************************************)
\* dict.get(key, default)
Get(d, key, default) == IF key \in DOMAIN d THEN d[key] ELSE default

\* a % b of Python for b > 0: the result has the sign of b, so it is in 0..b-1
PyMod(a, b) == a % b

\* int(a / b): true division, then truncation towards zero
IntTrueDiv(a, b) == IF a >= 0 THEN a \div b ELSE -((-a) \div b)

Max(a, b) == IF a >= b THEN a ELSE b

\* d with the key k bound to v (d[k] = v)
Put(d, k, v) == [x \in DOMAIN d \cup {k} |-> IF x = k THEN v ELSE d[x]]

EmptyDict == [x \in {} |-> None]

\* d without the key k
Without(d, k) == [x \in DOMAIN d \ {k} |-> d[x]]

(***************************************************************************)
(* Models, state dicts and optimizers.  A state dict maps layer names to   *)
(* tensors; the embedding weight is a sequence of rows (each row a value   *)
(* standing for one embedding vector), every other tensor is one value of  *)
(* a fixed shape.                                                          *)
(***************************************************************************)
EmbeddingKey == "embedding.weight"
DecoderKey == "decoder.weight"

PlainModel(hasEmbedding, sd) == [parallel |-> FALSE, embedding |-> hasEmbedding, state |-> sd]

\* torch.nn.DataParallel(m): the wrapped model is reached through .module
DataParallel(m) == [parallel |-> TRUE, module |-> m]

\* Shape of the tensor stored under key k
Shape(sd, k) == IF k = EmbeddingKey THEN Len(sd[k]) ELSE 1

\* the models a training loop saves: same architecture, different weights
TrainedStateDicts ==
    { [x \in {EmbeddingKey, DecoderKey} |-> IF x = EmbeddingKey THEN <<w, w>> ELSE w] : w \in {11, 12} }

\* the optimizer state that goes with a state dict
OptimizerOf(sd) == <<"adam", sd[DecoderKey]>>
Epochs == {1, 2}
LearningRate == "lr"
TrainSymbols == <<"Eb", "éb">>

(***************************************************************************)
(* get_state_dict                                                          *)
(***************************************************************************)
get_state_dict(m) == IF m.parallel THEN m.module.state ELSE m.state

(***************************************************************************)
(* File names and the file system.                                         *)
(***************************************************************************)
\* "checkpoint_{}".format(iteration): one name per integer
checkpoint_name(iteration) == <<"checkpoint_", iteration>>

\* os.remove(path): the directory afterwards, and whether OSError was raised
OsRemove(dir, name) ==
    IF name \in DOMAIN dir
        THEN [dir |-> Without(dir, name), error |-> NoException]
        ELSE [dir |-> dir, error |-> "OSError"]

(***************************************************************************)
(* checkpoint_cleanup: the directory afterwards and the exception that     *)
(* leaves the function                                                     *)
(***************************************************************************)
\* Variants of checkpoint_cleanup with one decision changed: the OSError of
\* os.remove not caught; no backup kept; the backup test inverted; the current
\* checkpoint removed instead of the previous one.
checkpoint_cleanup_nocatch(dir, iteration, checkpoint_frequency, checkpoint_backup_frequency) ==
    IF iteration > 0
        THEN LET last_checkpoint == iteration - checkpoint_frequency
             IN  IF PyMod(last_checkpoint, checkpoint_backup_frequency) # 0
                     THEN OsRemove(dir, checkpoint_name(last_checkpoint))
                     ELSE [dir |-> dir, error |-> NoException]
        ELSE [dir |-> dir, error |-> NoException]

checkpoint_cleanup_keep_none(dir, iteration, checkpoint_frequency, checkpoint_backup_frequency) ==
    IF iteration > 0
        THEN LET last_checkpoint == iteration - checkpoint_frequency
                 r == OsRemove(dir, checkpoint_name(last_checkpoint))
             IN  [dir |-> r.dir, error |-> NoException]
        ELSE [dir |-> dir, error |-> NoException]

checkpoint_cleanup_inverted(dir, iteration, checkpoint_frequency, checkpoint_backup_frequency) ==
    IF iteration > 0
        THEN LET last_checkpoint == iteration - checkpoint_frequency
             IN  IF PyMod(last_checkpoint, checkpoint_backup_frequency) = 0
                     THEN LET r == OsRemove(dir, checkpoint_name(last_checkpoint))
                          IN  [dir |-> r.dir, error |-> NoException]
                     ELSE [dir |-> dir, error |-> NoException]
        ELSE [dir |-> dir, error |-> NoException]

checkpoint_cleanup_current(dir, iteration, checkpoint_frequency, checkpoint_backup_frequency) ==
    IF iteration > 0
        THEN IF PyMod(iteration, checkpoint_backup_frequency) # 0
                 THEN LET r == OsRemove(dir, checkpoint_name(iteration))
                      IN  [dir |-> r.dir, error |-> NoException]
                 ELSE [dir |-> dir, error |-> NoException]
        ELSE [dir |-> dir, error |-> NoException]

checkpoint_cleanup(dir, iteration, checkpoint_frequency, checkpoint_backup_frequency) ==
    IF iteration > 0
        THEN LET last_checkpoint == iteration - checkpoint_frequency
             IN  IF PyMod(last_checkpoint, checkpoint_backup_frequency) # 0
                     THEN \* try: os.remove(...)  except OSError: pass
                          LET r == OsRemove(dir, checkpoint_name(last_checkpoint))
                          IN  [dir |-> r.dir, error |-> NoException]
                     ELSE [dir |-> dir, error |-> NoException]
        ELSE [dir |-> dir, error |-> NoException]

(***************************************************************************)
(* save_checkpoint                                                         *)
(***************************************************************************)
\* the dict handed to torch.save
SnapshotOf(m, optimizer, learning_rate, iteration, symbols, epoch) ==
    [iteration |-> iteration,
     state_dict |-> get_state_dict(m),
     optimizer |-> optimizer,
     learning_rate |-> learning_rate,
     epoch |-> epoch,
     symbols |-> symbols]

\* variant: iteration and epoch stored under each other's key
save_checkpoint_swapped(dir, m, optimizer, learning_rate, iteration, symbols, epoch, checkpoint_frequency, checkpoint_backup_frequency) ==
    checkpoint_cleanup(
        Put(dir, checkpoint_name(iteration),
            SnapshotOf(m, optimizer, learning_rate, epoch, symbols, iteration)),
        iteration, checkpoint_frequency, checkpoint_backup_frequency)

save_checkpoint(dir, m, optimizer, learning_rate, iteration, symbols, epoch, checkpoint_frequency, checkpoint_backup_frequency) ==
    checkpoint_cleanup(
        Put(dir, checkpoint_name(iteration),
            SnapshotOf(m, optimizer, learning_rate, iteration, symbols, epoch)),
        iteration, checkpoint_frequency, checkpoint_backup_frequency)

(***************************************************************************)
(* model.load_state_dict(sd), strict: the keys and the shapes must match   *)
(***************************************************************************)
LoadStateDict(m, sd) ==
    IF DOMAIN sd = DOMAIN m.state /\ \A k \in DOMAIN sd : Shape(sd, k) = Shape(m.state, k)
        THEN [model |-> [m EXCEPT !.state = sd], error |-> NoException]
        ELSE [model |-> m, error |-> "RuntimeError"]

(***************************************************************************)
(* load_checkpoint: what it returns and the exception that leaves it       *)
(***************************************************************************)
\* variant: the quotient rounded up
DerivedEpochCeil(iteration, batches) == Max(0, (iteration + batches - 1) \div batches)

\* the default of .get("epoch", ...), evaluated before the lookup
DerivedEpoch(iteration, batches) == Max(0, IntTrueDiv(iteration, batches))

EpochOf(checkpoint_dict, batches) ==
    Get(checkpoint_dict, "epoch", DerivedEpoch(checkpoint_dict["iteration"], batches))

load_checkpoint(dir, checkpoint_path, m, optimizer, batches) ==
    IF checkpoint_path \notin DOMAIN dir
        THEN [value |-> None, error |-> "FileNotFoundError"]
        ELSE LET checkpoint_dict == dir[checkpoint_path]
                 loaded == LoadStateDict(m, checkpoint_dict["state_dict"])
             IN  IF loaded.error # NoException
                     THEN [value |-> None, error |-> loaded.error]
                 ELSE IF batches = 0
                     THEN [value |-> None, error |-> "ZeroDivisionError"]
                 ELSE [value |-> [model |-> loaded.model,
                                  optimizer |-> checkpoint_dict["optimizer"],
                                  iteration |-> checkpoint_dict["iteration"],
                                  epoch |-> EpochOf(checkpoint_dict, batches)],
                       error |-> NoException]


(***************************************************************************)
(* Text symbols.  A symbol is a string; unidecode, str.upper and str.lower *)
(* are given by their values on the symbols of the model.                  *)
(***************************************************************************)
Symbols == {"Éb", "Eb", "ÉB", "éb"}

\* unidecode(s): the ASCII transliteration
unidecode(s) ==
    CASE s = "Éb" -> "Eb"
      [] s = "ÉB" -> "EB"
      [] s = "éb" -> "eb"
      [] OTHER -> s

\* s.upper()
Upper(s) ==
    CASE s \in {"Éb", "ÉB", "éb"} -> "ÉB"
      [] s \in {"Eb", "EB", "eb"} -> "EB"
      [] OTHER -> s

\* s.lower()
Lower(s) ==
    CASE s \in {"Éb", "ÉB", "éb"} -> "éb"
      [] s \in {"Eb", "EB", "eb"} -> "eb"
      [] OTHER -> s

\* the reference alphabet read from nvidia_alphabet.txt when the module is
\* imported; two ASCII symbols stand for the contents of the file
NVIDIA_ALPHABET == <<"Eb", "eb">>

\* sequences over S of length lo..hi
SeqsOf(S, lo, hi) == UNION {[1..n -> S] : n \in lo..hi}

(***************************************************************************)
(* transfer_symbols_embedding                                              *)
(***************************************************************************)
\* weight_dict: one entry per old symbol, a later duplicate overwrites an earlier one
RECURSIVE BuildWeightDict(_, _, _, _)
BuildWeightDict(original_symbols, weight_tensor, symbol_index, weight_dict) ==
    IF symbol_index > Len(original_symbols)
        THEN weight_dict
        ELSE BuildWeightDict(original_symbols, weight_tensor, symbol_index + 1,
                             Put(weight_dict, original_symbols[symbol_index],
                                 weight_tensor[symbol_index]))

\* variant: the lower-case lookup tried before the upper-case one
SourceLowerFirst(weight_dict, new_symbol) ==
    IF new_symbol \in DOMAIN weight_dict
        THEN [kind |-> "exact", key |-> new_symbol]
    ELSE IF unidecode(new_symbol) \in DOMAIN weight_dict
        THEN [kind |-> "unidecode", key |-> unidecode(new_symbol)]
    ELSE IF Lower(new_symbol) \in DOMAIN weight_dict
        THEN [kind |-> "lower", key |-> Lower(new_symbol)]
    ELSE IF Upper(new_symbol) \in DOMAIN weight_dict
        THEN [kind |-> "upper", key |-> Upper(new_symbol)]
    ELSE [kind |-> "sample", key |-> new_symbol]

\* the branch of the if/elif chain taken for new_symbol, and the key it reads
Source(weight_dict, new_symbol) ==
    IF new_symbol \in DOMAIN weight_dict
        THEN [kind |-> "exact", key |-> new_symbol]
    ELSE IF unidecode(new_symbol) \in DOMAIN weight_dict
        THEN [kind |-> "unidecode", key |-> unidecode(new_symbol)]
    ELSE IF Upper(new_symbol) \in DOMAIN weight_dict
        THEN [kind |-> "upper", key |-> Upper(new_symbol)]
    ELSE IF Lower(new_symbol) \in DOMAIN weight_dict
        THEN [kind |-> "lower", key |-> Lower(new_symbol)]
    ELSE [kind |-> "sample", key |-> new_symbol]

\* the loop over new_symbols from symbol_index on; draws[i] is the vector normal_
\* returns if row i is sampled.  `weight` is embedding_layer.weight.data.
RECURSIVE TransferLoop(_, _, _, _, _, _, _)
TransferLoop(weight_tensor, weight_dict, new_symbols, draws, symbol_index, weight, sampled) ==
    IF symbol_index > Len(new_symbols)
        THEN [weight |-> weight, error |-> NoException, sampled |-> sampled]
    ELSE LET src == Source(weight_dict, new_symbols[symbol_index])
         IN  IF src.kind = "sample" /\ Len(weight_tensor) = 0
                 THEN \* weight_tensor[0] of an empty matrix
                      [weight |-> weight, error |-> "IndexError", sampled |-> sampled]
             ELSE IF symbol_index > Len(weight)
                 THEN \* the embedding layer has no such row
                      [weight |-> weight, error |-> "IndexError", sampled |-> sampled]
             ELSE TransferLoop(weight_tensor, weight_dict, new_symbols, draws, symbol_index + 1,
                               [weight EXCEPT ![symbol_index] =
                                   IF src.kind = "sample" THEN draws[symbol_index]
                                                          ELSE weight_dict[src.key]],
                               IF src.kind = "sample" THEN sampled \cup {symbol_index}
                                                      ELSE sampled)

\* the function after its assertion
TransferBody(weight_tensor, weight, new_symbols, symbols, draws) ==
    IF \E i \in 1..Len(symbols) : i > Len(weight_tensor)
        THEN \* weight_tensor[symbol_index] while weight_dict is built
             [weight |-> weight, error |-> "IndexError", sampled |-> {}]
        ELSE TransferLoop(weight_tensor, BuildWeightDict(symbols, weight_tensor, 1, EmptyDict),
                          new_symbols, draws, 1, weight, {})

\* original_symbols is an optional argument: NoneOpt or Some(list)
EffectiveSymbols(original_symbols) ==
    IF original_symbols = NoneOpt THEN NVIDIA_ALPHABET ELSE original_symbols[1]

\* variant: the length assertion left out
transfer_symbols_embedding_noassert(original_embedding_weight, weight, new_symbols, original_symbols, draws) ==
    TransferBody(original_embedding_weight, weight, new_symbols,
                 EffectiveSymbols(original_symbols), draws)

transfer_symbols_embedding(original_embedding_weight, weight, new_symbols, original_symbols, draws) ==
    LET symbols == EffectiveSymbols(original_symbols)
    IN  IF Len(symbols) # Len(original_embedding_weight)
            THEN [weight |-> weight, error |-> "AssertionError", sampled |-> {}]
            ELSE TransferBody(original_embedding_weight, weight, new_symbols, symbols, draws)

(***************************************************************************)
(* warm_start_model: the model afterwards, the exception that leaves the   *)
(* function and the transfer it invoked                                    *)
(***************************************************************************)
\* dummy_dict.update(model_dict)
Update(dummy_dict, model_dict) ==
    [k \in DOMAIN dummy_dict \cup DOMAIN model_dict |->
        IF k \in DOMAIN model_dict THEN model_dict[k] ELSE dummy_dict[k]]

warm_start_model(dir, checkpoint_path, m, symbols, ignore_layers, draws) ==
    IF checkpoint_path \notin DOMAIN dir
        THEN [model |-> m, error |-> "FileNotFoundError", transfer |-> NoneOpt]
    ELSE
    LET checkpoint_dict == dir[checkpoint_path]
        stripped == [k \in DOMAIN checkpoint_dict["state_dict"] \ ignore_layers |->
                        checkpoint_dict["state_dict"][k]]
        model_dict == IF ignore_layers # {}
                          THEN Update(m.state, stripped)
                          ELSE checkpoint_dict["state_dict"]
        loaded == LoadStateDict(m, model_dict)
        old_symbols == IF "symbols" \in DOMAIN model_dict
                           THEN Some(model_dict["symbols"]) ELSE NoneOpt
    IN  IF loaded.error # NoException
            THEN [model |-> m, error |-> loaded.error, transfer |-> NoneOpt]
        ELSE IF /\ symbols # NoneOpt
                /\ old_symbols # symbols
                /\ m.embedding
                /\ EmbeddingKey \in DOMAIN model_dict
            THEN IF EmbeddingKey \notin DOMAIN checkpoint_dict["state_dict"]
                     THEN [model |-> loaded.model, error |-> "KeyError", transfer |-> NoneOpt]
                     ELSE LET t == transfer_symbols_embedding(
                                       checkpoint_dict["state_dict"][EmbeddingKey],
                                       loaded.model.state[EmbeddingKey],
                                       symbols[1], old_symbols, draws)
                          IN  [model |-> [loaded.model EXCEPT !.state[EmbeddingKey] = t.weight],
                               error |-> t.error,
                               transfer |-> Some([original_symbols |-> old_symbols,
                                                  new_symbols |-> symbols[1],
                                                  sampled |-> t.sampled])]
        ELSE [model |-> loaded.model, error |-> NoException, transfer |-> NoneOpt]

(***************************************************************************)
(* The calls of the training loop: state shared by all specifications.     *)
(***************************************************************************)
NoTrace == [saved |-> EmptyDict, transfer |-> NoneOpt]

Call(op, iteration, f, b, m, optimizer, epoch, path, batches) ==
    [op |-> op, iteration |-> iteration,
     checkpoint_frequency |-> f, checkpoint_backup_frequency |-> b,
     model |-> m, optimizer |-> optimizer, epoch |-> epoch,
     checkpoint_path |-> path, batches |-> batches]

\* a snapshot written before epochs and symbols were recorded
LegacyStateDict == [x \in {EmbeddingKey, DecoderKey} |-> IF x = EmbeddingKey THEN <<10, 10>> ELSE 10]

LegacySnapshot(k) ==
    [iteration |-> k, state_dict |-> LegacyStateDict,
     optimizer |-> OptimizerOf(LegacyStateDict), learning_rate |-> LearningRate]

\* the freshly constructed model a checkpoint is loaded into
FreshStateDict == [x \in {EmbeddingKey, DecoderKey} |-> IF x = EmbeddingKey THEN <<0, 0>> ELSE 0]

FreshModel == PlainModel(TRUE, FreshStateDict)

Idle == Call("idle", None, None, None, None, None, None, None, None)

\* the arguments of the saves whose files are still in the directory
StillOnDisk(saved, dir) ==
    [k \in {i \in DOMAIN saved : checkpoint_name(i) \in DOMAIN dir} |-> saved[k]]

\* save_checkpoint(model, optimizer, learning_rate, iteration, symbols, epoch, ...)
DoSave(iteration, f, b, sd, parallel, epoch) ==
    LET plain == PlainModel(TRUE, sd)
        m == IF parallel THEN DataParallel(plain) ELSE plain
        r == save_checkpoint(directory, m, OptimizerOf(sd), LearningRate, iteration,
                             TrainSymbols, epoch, f, b)
    IN  /\ directory' = r.dir
        /\ raised' = r.error
        /\ returned' = None
        /\ before' = directory
        /\ call' = Call("save_checkpoint", iteration, f, b, m, OptimizerOf(sd), epoch, None, None)
        /\ trace' = [trace EXCEPT !.saved =
                        StillOnDisk(Put(@, iteration,
                                        [state_dict |-> sd, optimizer |-> OptimizerOf(sd),
                                         iteration |-> iteration, epoch |-> epoch]), r.dir)]
        /\ UNCHANGED model

SaveCheckpoint ==
    /\ call.op = "idle"
    /\ \E iteration \in 0..MaxIter, f \in 1..MaxFreq, b \in 1..MaxBackup,
       sd \in TrainedStateDicts, parallel \in BOOLEAN, epoch \in Epochs :
          DoSave(iteration, f, b, sd, parallel, epoch)

\* checkpoint_cleanup called on its own
CheckpointCleanup ==
    /\ call.op = "idle"
    /\ \E iteration \in 0..MaxIter, f \in 1..MaxFreq, b \in 1..MaxBackup :
          LET r == checkpoint_cleanup(directory, iteration, f, b)
          IN  /\ directory' = r.dir
              /\ raised' = r.error
              /\ returned' = None
              /\ before' = directory
              /\ call' = Call("checkpoint_cleanup", iteration, f, b, None, None, None, None, None)
              /\ trace' = [trace EXCEPT !.saved = StillOnDisk(@, r.dir)]
              /\ UNCHANGED model

\* load_checkpoint(checkpoint_path, model, optimizer, train_loader)
LoadCheckpoint ==
    /\ call.op = "idle"
    /\ \E k \in 0..MaxIter, batches \in 0..MaxBatches :
          LET r == load_checkpoint(directory, checkpoint_name(k), FreshModel,
                                   OptimizerOf(FreshStateDict), batches)
          IN  /\ returned' = r.value
              /\ raised' = r.error
              /\ before' = directory
              /\ call' = Call("load_checkpoint", k, None, None, FreshModel,
                              OptimizerOf(FreshStateDict), None, checkpoint_name(k), batches)
              /\ UNCHANGED <<directory, model, trace>>

\* the call is over: control is back in the training loop, only the files remain
Return ==
    /\ call.op \in {"save_checkpoint", "checkpoint_cleanup", "load_checkpoint"}
    /\ call' = Idle
    /\ before' = None
    /\ raised' = NoException
    /\ returned' = None
    /\ UNCHANGED <<directory, model, trace>>

(***************************************************************************)
(* Spec: any sequence of save, cleanup and load calls on an output         *)
(* directory that may already hold snapshots of an older format.           *)
(***************************************************************************)
\* The directory may also hold a stray file named checkpoint_-1: no save writes
\* it, but it is the file a cleanup at iteration 0 would look at.
Init ==
    /\ \E present \in SUBSET ((-1)..MaxIter) :
          directory = [n \in {checkpoint_name(k) : k \in present} |-> LegacySnapshot(n[2])]
    /\ model = None
    /\ call = Idle
    /\ before = None
    /\ raised = NoException
    /\ returned = None
    /\ trace = NoTrace

Next == SaveCheckpoint \/ CheckpointCleanup \/ LoadCheckpoint \/ Return

Spec == Init /\ [][Next]_vars

(***************************************************************************)
(* SpecRun: one training run on an empty output directory, saving every    *)
(* checkpoint_frequency iterations.                                        *)
(***************************************************************************)
InitRun ==
    /\ directory = EmptyDict
    /\ model = None
    /\ \E f \in 1..MaxFreq, b \in 1..MaxBackup :
          call = Call("train", 0, f, b, None, None, None, None, None)
    /\ before = None
    /\ raised = NoException
    /\ returned = None
    /\ trace = NoTrace

TrainSave ==
    /\ call.iteration < MaxSaves * call.checkpoint_frequency
    /\ \E sd \in TrainedStateDicts, parallel \in BOOLEAN, epoch \in Epochs :
          DoSave(call.iteration + call.checkpoint_frequency, call.checkpoint_frequency,
                 call.checkpoint_backup_frequency, sd, parallel, epoch)

NextRun == TrainSave

SpecRun == InitRun /\ [][NextRun]_vars

(***************************************************************************)
(* Retention and codec properties.                                         *)
(***************************************************************************)
\* the file the last retention decision was about
PreviousName == checkpoint_name(call.iteration - call.checkpoint_frequency)

CurrentName == checkpoint_name(call.iteration)

\* the iterations a run has saved when it is at iteration `it` with frequency f
SavedUpTo(it, f) == {j * f : j \in 1..(it \div f)}

C7_EpochDerivation ==
    (/\ call.op = "load_checkpoint"
     /\ call.checkpoint_path \in DOMAIN before
     /\ call.batches >= 1) =>
        LET snap == before[call.checkpoint_path]
        IN  /\ raised = NoException
            /\ "epoch" \in DOMAIN snap => returned.epoch = snap.epoch
            /\ "epoch" \notin DOMAIN snap =>
                  /\ returned.epoch * call.batches <= snap.iteration
                  /\ snap.iteration < (returned.epoch + 1) * call.batches

C7_Witness ==
    /\ call.op = "load_checkpoint"
    /\ call.checkpoint_path \in DOMAIN before
    /\ call.batches >= 2
    /\ raised = NoException
    /\ "epoch" \notin DOMAIN before[call.checkpoint_path]
    /\ before[call.checkpoint_path].iteration % call.batches # 0

\* C8: save_checkpoint creates checkpoint_<iteration>, deletes at most the file
\* checkpoint_<iteration - checkpoint_frequency>, leaves every other file as it
\* was, and the file it wrote exists when it returns.
C8_SaveFrame ==
    call.op = "save_checkpoint" =>
        /\ raised = NoException
        /\ CurrentName \in DOMAIN directory
        /\ directory[CurrentName].iteration = call.iteration
        /\ (DOMAIN directory) \ (DOMAIN before) \subseteq {CurrentName}
        /\ (DOMAIN before) \ (DOMAIN directory) \subseteq {PreviousName}
        /\ \A n \in (DOMAIN before) \ {CurrentName, PreviousName} :
              n \in DOMAIN directory /\ directory[n] = before[n]

C8_Witness ==
    /\ call.op = "save_checkpoint"
    /\ CurrentName \notin DOMAIN before
    /\ PreviousName \in DOMAIN before
    /\ PreviousName \notin DOMAIN directory
    /\ \E n \in DOMAIN before : n \notin {CurrentName, PreviousName}

\* C9: when the file checkpoint_cleanup decides to delete does not exist, the
\* call returns normally and leaves the directory as it was; a second call
\* with the same arguments changes nothing.
C9_CleanupIdempotent ==
    call.op = "checkpoint_cleanup" =>
        /\ raised = NoException
        /\ PreviousName \notin DOMAIN before => directory = before
        /\ checkpoint_cleanup(directory, call.iteration, call.checkpoint_frequency,
                              call.checkpoint_backup_frequency).dir = directory

C9_Witness ==
    /\ call.op = "checkpoint_cleanup"
    /\ call.iteration > 0
    /\ (call.iteration - call.checkpoint_frequency) % call.checkpoint_backup_frequency # 0
    /\ PreviousName \notin DOMAIN before
    /\ DOMAIN before # {}

(***************************************************************************)
(* SpecTransfer: one call of transfer_symbols_embedding on the embedding   *)
(* layer of a freshly constructed model.                                   *)
(***************************************************************************)
\* row i of a checkpoint's embedding matrix: every row is a different vector
CheckpointRow(i) == 100 + i

CheckpointEmbedding(rows) == [i \in 1..rows |-> CheckpointRow(i)]

\* what normal_(mean, std) can return: a vector equal to a checkpoint row, or a new one
SampleVals == {CheckpointRow(1), 200}

NoDraw == CheckpointRow(1)

\* a freshly constructed model: every weight at its initial value 0
NewModel(hasEmbedding, rows) ==
    PlainModel(hasEmbedding,
               [x \in (IF hasEmbedding THEN {EmbeddingKey} ELSE {}) \cup {DecoderKey} |->
                   IF x = EmbeddingKey THEN [i \in 1..rows |-> 0] ELSE 0])

InitTransfer ==
    /\ directory = EmptyDict
    /\ \E rows \in 0..MaxNew : model = NewModel(TRUE, rows)
    /\ call = Idle
    /\ before = None
    /\ raised = NoException
    /\ returned = None
    /\ trace = NoTrace

TransferSymbolsEmbedding ==
    /\ call.op = "idle"
    /\ \E original_symbols \in {NoneOpt} \cup {Some(x) : x \in SeqsOf(Symbols, 0, MaxOld)},
          rows \in 1..MaxOld,
          new_symbols \in SeqsOf(Symbols, 0, Len(model.state[EmbeddingKey])) :
        \E draws \in [1..Len(new_symbols) -> SampleVals] :
          LET r == transfer_symbols_embedding(CheckpointEmbedding(rows), model.state[EmbeddingKey],
                                              new_symbols, original_symbols, draws)
          IN  /\ \A i \in (1..Len(new_symbols)) \ r.sampled : draws[i] = NoDraw
              /\ model' = [model EXCEPT !.state[EmbeddingKey] = r.weight]
              /\ raised' = r.error
              /\ returned' = None
              /\ before' = model
              /\ call' = [op |-> "transfer_symbols_embedding",
                          original_embedding_weight |-> CheckpointEmbedding(rows),
                          new_symbols |-> new_symbols,
                          original_symbols |-> original_symbols,
                          draws |-> draws]
              /\ trace' = [trace EXCEPT !.transfer =
                              Some([original_symbols |-> original_symbols,
                                    new_symbols |-> new_symbols,
                                    sampled |-> r.sampled])]
              /\ UNCHANGED directory

NextTransfer == TransferSymbolsEmbedding

SpecTransfer == InitTransfer /\ [][NextTransfer]_vars

(***************************************************************************)
(* SpecWarmStart: one call of warm_start_model on a freshly constructed    *)
(* model, from a checkpoint file written by an earlier training.           *)
(***************************************************************************)
WarmStartPath == checkpoint_name(0)

\* a checkpoint of a model with `rows` embedding rows (or without an embedding layer)
CheckpointStateDict(hasEmbedding, rows) ==
    [x \in (IF hasEmbedding THEN {EmbeddingKey} ELSE {}) \cup {DecoderKey} |->
        IF x = EmbeddingKey THEN CheckpointEmbedding(rows) ELSE 11]

InitWarmStart ==
    /\ \E hasEmbedding \in BOOLEAN, rows \in 1..MaxOld :
          LET sd == CheckpointStateDict(hasEmbedding, rows)
              legacy == [LegacySnapshot(0) EXCEPT !.state_dict = sd]
          IN  \/ directory = [n \in {WarmStartPath} |-> legacy]
              \/ \E symbols \in SeqsOf(Symbols, rows, rows) :
                    directory = [n \in {WarmStartPath} |->
                        SnapshotOf(PlainModel(hasEmbedding, sd), OptimizerOf(sd),
                                   LearningRate, 0, symbols, 1)]
    /\ \E hasEmbedding \in BOOLEAN, rows \in 0..MaxNew :
          model = NewModel(hasEmbedding, IF hasEmbedding THEN rows ELSE 0)
    /\ call = Idle
    /\ before = None
    /\ raised = NoException
    /\ returned = None
    /\ trace = NoTrace

WarmStartModel ==
    /\ call.op = "idle"
    /\ \E symbols \in {NoneOpt} \cup
                      {Some(x) : x \in SeqsOf(Symbols, 0,
                                     IF model.embedding THEN Len(model.state[EmbeddingKey])
                                                        ELSE MaxNew)},
          ignore_layers \in {{EmbeddingKey}, {}} :
        \E draws \in [1..(IF symbols = NoneOpt THEN 0 ELSE Len(symbols[1])) -> SampleVals] :
          LET r == warm_start_model(directory, WarmStartPath, model, symbols, ignore_layers, draws)
              sampled == IF r.transfer = NoneOpt THEN {} ELSE r.transfer[1].sampled
          IN  /\ \A i \in (DOMAIN draws) \ sampled : draws[i] = NoDraw
              /\ model' = r.model
              /\ raised' = r.error
              /\ returned' = IF r.error = NoException THEN "model" ELSE None
              /\ before' = model
              /\ call' = [op |-> "warm_start_model",
                          checkpoint_path |-> WarmStartPath,
                          symbols |-> symbols,
                          ignore_layers |-> ignore_layers,
                          draws |-> draws]
              /\ trace' = [trace EXCEPT !.transfer = r.transfer]
              /\ UNCHANGED directory

NextWarmStart == WarmStartModel

SpecWarmStart == InitWarmStart /\ [][NextWarmStart]_vars

(***************************************************************************)
(* Embedding transfer and warm start properties.                           *)
(***************************************************************************)
\* x is a symbol of the vocabulary old
InVocabulary(old, x) == \E j \in 1..Len(old) : old[j] = x

\* the row of the matrix W that belongs to symbol x of the vocabulary old
\* (the last one, should the vocabulary name x twice)
RowOfSymbol(old, W, x) ==
    W[CHOOSE j \in 1..Len(old) : old[j] = x /\ \A k \in (j + 1)..Len(old) : old[k] # x]

\* the row the priority order exact, transliterated, upper, lower, sampled gives symbol s
ExpectedRow(old, W, s, draw) ==
    IF InVocabulary(old, s) THEN RowOfSymbol(old, W, s)
    ELSE IF InVocabulary(old, unidecode(s)) THEN RowOfSymbol(old, W, unidecode(s))
    ELSE IF InVocabulary(old, Upper(s)) THEN RowOfSymbol(old, W, Upper(s))
    ELSE IF InVocabulary(old, Lower(s)) THEN RowOfSymbol(old, W, Lower(s))
    ELSE draw

\* the old vocabulary of the last transfer_symbols_embedding call
CallOldVocabulary ==
    IF call.original_symbols = NoneOpt THEN NVIDIA_ALPHABET ELSE call.original_symbols[1]

\* C5: transfer_symbols_embedding fills row i of the embedding layer from the
\* first source that applies to new symbol i, in the order exact match, ASCII
\* transliteration, upper case, lower case, fresh sample, and writes no row
\* beyond the new vocabulary.
C5_TransferPriority ==
    (call.op = "transfer_symbols_embedding" /\ raised = NoException) =>
        LET weight == model.state[EmbeddingKey]
            old == CallOldVocabulary
        IN  /\ Len(weight) = Len(before.state[EmbeddingKey])
            /\ \A i \in 1..Len(call.new_symbols) :
                  weight[i] = ExpectedRow(old, call.original_embedding_weight,
                                          call.new_symbols[i], call.draws[i])
            /\ \A i \in (Len(call.new_symbols) + 1)..Len(weight) :
                  weight[i] = before.state[EmbeddingKey][i]
            /\ model.state[DecoderKey] = before.state[DecoderKey]

C5_Witness ==
    /\ call.op = "transfer_symbols_embedding"
    /\ raised = NoException
    /\ Len(call.new_symbols) < Len(model.state[EmbeddingKey])
    /\ \E i \in 1..Len(call.new_symbols) :
          LET s == call.new_symbols[i]
          IN  /\ ~InVocabulary(CallOldVocabulary, s)
              /\ ~InVocabulary(CallOldVocabulary, unidecode(s))
              /\ InVocabulary(CallOldVocabulary, Upper(s))
              /\ InVocabulary(CallOldVocabulary, Lower(s))
              /\ Upper(s) # Lower(s)

\* C10: when the old vocabulary and the old embedding matrix differ in length,
\* transfer_symbols_embedding fails with an AssertionError and has written no
\* row of the embedding layer.
C10_ShapeMismatch ==
    (/\ call.op = "transfer_symbols_embedding"
     /\ Len(CallOldVocabulary) # Len(call.original_embedding_weight)) =>
        /\ raised = "AssertionError"
        /\ model = before

C10_Witness ==
    /\ call.op = "transfer_symbols_embedding"
    /\ Len(CallOldVocabulary) # Len(call.original_embedding_weight)
    /\ raised = "AssertionError"
    /\ \E i \in 1..Len(call.new_symbols) : InVocabulary(CallOldVocabulary, call.new_symbols[i])
    /\ \E i \in 1..Len(call.new_symbols) :
          \E j \in 1..Len(call.original_embedding_weight) :
              CallOldVocabulary[j] = call.new_symbols[i]

\* the snapshot warm_start_model read
WarmCheckpoint == directory[call.checkpoint_path]

\* C3: a warm start with ignore_layers = ["embedding.weight"] and a vocabulary
\* equal to the one recorded in the checkpoint does not invoke the embedding
\* transfer and leaves the embedding layer at its values from before the load.
C3_SameVocabularyKeepsEmbedding ==
    (/\ call.op = "warm_start_model"
     /\ call.ignore_layers = {EmbeddingKey}
     /\ before.embedding
     /\ "symbols" \in DOMAIN WarmCheckpoint
     /\ call.symbols = Some(WarmCheckpoint["symbols"])) =>
        /\ trace.transfer = NoneOpt
        /\ model.state[EmbeddingKey] = before.state[EmbeddingKey]

\* C4: a warm start with the default ignore_layers, a model with an embedding
\* layer, a checkpoint with embedding.weight and a vocabulary that differs from
\* the recorded one invokes the embedding transfer with the recorded vocabulary
\* as the old vocabulary, so every row whose symbol the recorded vocabulary
\* holds ends equal to the checkpoint's row of that symbol.
C4_TransferFromRecordedVocabulary ==
    (/\ call.op = "warm_start_model"
     /\ call.ignore_layers = {EmbeddingKey}
     /\ before.embedding
     /\ EmbeddingKey \in DOMAIN WarmCheckpoint["state_dict"]
     /\ "symbols" \in DOMAIN WarmCheckpoint
     /\ call.symbols # NoneOpt
     /\ call.symbols # Some(WarmCheckpoint["symbols"])) =>
        /\ trace.transfer # NoneOpt
        /\ trace.transfer[1].original_symbols = Some(WarmCheckpoint["symbols"])
        /\ \A i \in 1..Len(call.symbols[1]) :
              InVocabulary(WarmCheckpoint["symbols"], call.symbols[1][i]) =>
                  model.state[EmbeddingKey][i] =
                      RowOfSymbol(WarmCheckpoint["symbols"],
                                  WarmCheckpoint["state_dict"][EmbeddingKey],
                                  call.symbols[1][i])

====
